---- MODULE Spec2Model ----
(***************************************************************************)
(* A model of watch.py: the Watcher polling loop (watch), the Page Reader  *)
(* (_find_entries, _safe_find, _parse_entry), the entries setter that      *)
(* diffs the read against the Observed State, the Notifier (_notify) and   *)
(* the console render (_print_entries).                                    *)
(*                                                                         *)
(* The tracker page is the environment: each poll sees one snapshot of it, *)
(* a log container that is present or not and the rows it holds, each row  *)
(* the texts of its td cells.  The send collaborator either accepts a      *)
(* message or raises.  Wall-clock values (the two timestamps of the        *)
(* render, the lengths of the sleeps) are not part of the state.           *)
(***************************************************************************)
EXTENDS Naturals, Sequences, FiniteSets, TLC

VARIABLES
    recipient,    \* Watcher.recipient: <<>> is None, <<s>> is the string s
    _entries,     \* Watcher._entries, the Observed State
    pc,           \* position of watch(): "find", "set", "print", "sleep", "crashed"
    new_entries,  \* the value _find_entries returned in the current cycle
    added,        \* the local `added` of the entries setter, as last computed
    sent,         \* calls handed to pywhatkit.sendwhatmsg_instantly in the current cycle
    console,      \* the lines on the terminal
    fault,        \* the exception that ended watch(), "none" while it runs
    page,         \* the page snapshot of the read in progress, until the
                  \* setter has consumed what was read from it
    prior,        \* history: the Observed State when the current cycle started
    last_read,    \* history: what the read of the preceding cycle returned
    events,       \* history: the steps the current cycle has completed, in order
    first,        \* history: TRUE until the first cycle has completed
    tracked,      \* history: one entry whose notifications are counted
    notified,     \* history: number of messages sent that list `tracked` (saturating)
    presence      \* history: "unseen", "present" (in every read since it first
                  \* appeared) or "gone" (a later read lacked it)

vars == <<recipient, _entries, pc, new_entries, added, sent, console, fault,
          page, prior, last_read, events, first, tracked, notified, presence>>

--------------------------------------------------------------------------
(* Bounds of the model *)

\* most rows a page snapshot holds
MaxRows == 2
\* the count of notifications of the tracked entry saturates here
MaxCount == 2

(* Program constant *)

\* wait_time handed to sendwhatmsg_instantly
wait_time == 20

--------------------------------------------------------------------------
(* The environment: page snapshots and recipients *)

\* A row is the sequence of the texts of its td cells: a header row has none,
\* a data row has date, time, location, message; a malformed row has fewer
\* than four cells, and a row may carry cells after the fourth.
HeaderRow == <<>>
DataRows ==
    { <<"D1", "T1", "L1", "M1">>,
      <<"D1", "T1", "L1", "M2">>,
      <<"D2", "T2", "L2", "M2">> }
ShortRow == <<"D1", "T1">>
LongRow == <<"D1", "T1", "L1", "M1", "X">>
Rows == {HeaderRow, ShortRow, LongRow} \cup DataRows

SeqsUpTo(S, n) == UNION { [1..k -> S] : k \in 0..n }

\* logs: whether an element with id "logs" is present; rows: its tr elements
NoPage == [logs |-> FALSE, rows |-> <<>>]
Pages ==
    { NoPage }
    \cup { [logs |-> TRUE, rows |-> r] : r \in SeqsUpTo(Rows, MaxRows) }

None == <<>>
Recipients == { None, <<"">>, <<"+5491100000000">> }

--------------------------------------------------------------------------
(* Entry and the pure helpers *)

\* @dataclass Entry: the generated __eq__ compares (date, location, message)
EntryEq(a, b) ==
    /\ a.date = b.date
    /\ a.location = b.location
    /\ a.message = b.message

\* the generated __repr__, which print() and the f-string of _notify use
EntryStr(e) ==
    "Entry(date='" \o e.date \o "', location='" \o e.location
        \o "', message='" \o e.message \o "')"

\* _parse_entry: columns[0..3]; IndexError when there are fewer than four
ParseEntry(columns) ==
    IF Len(columns) < 4
    THEN [exc |-> "IndexError"]
    ELSE [exc |-> "none",
          entry |-> [date |-> columns[1] \o " " \o columns[2],
                     location |-> columns[3],
                     message |-> columns[4]]]

\* `entry in list`: list.__contains__ tests the elements with ==
RECURSIVE Contains(_, _)
Contains(list, entry) ==
    IF list = <<>> THEN FALSE
    ELSE EntryEq(Head(list), entry) \/ Contains(Tail(list), entry)

\* variant: only None counts as unset
TruthyNotNone(r) == r # None

\* the truth value of Watcher.recipient (str | None)
Truthy(r) == r # None /\ r[1] # ""

\* the positional argument `code`, and Watcher._url
code == "CODE"
url == "https://apps.chazki.com/tracker/" \o code

--------------------------------------------------------------------------
(* The Page Reader *)

\* variant: no wait before the lookup; find_element raises at once when
\* nothing matches and find_elements returns what is there, if anything
SafeFindNoWait(found, method) ==
    IF method = "find_element"
    THEN (IF found = <<>>
          THEN [exc |-> "NoSuchElementException"]
          ELSE [exc |-> "none", value |-> Head(found)])
    ELSE [exc |-> "none", value |-> found]

\* _safe_find: WebDriverWait(...).until(presence_of_element_located) raises
\* TimeoutException unless an element matches; then `method` is called.
\* `found` is the sequence of the elements that match the locator.
SafeFind(found, method) ==
    IF found = <<>>
    THEN [exc |-> "TimeoutException"]
    ELSE [exc |-> "none",
          value |-> IF method = "find_element" THEN Head(found) ELSE found]

\* the elements of the page with id "logs", each given by its tr rows
LogsOf(p) == IF p.logs THEN <<p.rows>> ELSE <<>>

\* the loop of _find_entries over the rows: a row without td cells is
\* skipped, a row with cells is parsed and appended to the local `entries`
RECURSIVE ParseRows(_, _)
ParseRows(rows, acc) ==
    IF rows = <<>> THEN [exc |-> "none", entries |-> acc]
    ELSE LET columns == Head(rows) IN
         IF columns # <<>>
         THEN LET p == ParseEntry(columns) IN
              IF p.exc # "none" THEN [exc |-> p.exc]
              ELSE ParseRows(Tail(rows), Append(acc, p.entry))
         ELSE ParseRows(Tail(rows), acc)

\* _find_entries on one snapshot of the page
FindEntriesResult(p) ==
    LET logs == SafeFind(LogsOf(p), "find_element") IN
    IF logs.exc # "none" THEN [exc |-> logs.exc]
    ELSE LET rows == SafeFind(logs.value, "find_elements") IN
         IF rows.exc # "none" THEN [exc |-> rows.exc]
         ELSE ParseRows(rows.value, <<>>)

\* every entry a page can yield
Entries == { ParseEntry(r).entry : r \in DataRows }

--------------------------------------------------------------------------
(* The diff, the message and the screen *)

\* the loop of the entries setter: `added` collects, in order, each entry of
\* new that is not in old
RECURSIVE AddedLoop(_, _, _)
AddedLoop(old, new, acc) ==
    IF new = <<>> THEN acc
    ELSE AddedLoop(old, Tail(new),
                   IF ~Contains(old, Head(new)) THEN Append(acc, Head(new))
                   ELSE acc)

\* variant: an entry already collected is not collected again
RECURSIVE AddedNoRepeatLoop(_, _, _)
AddedNoRepeatLoop(old, new, acc) ==
    IF new = <<>> THEN acc
    ELSE AddedNoRepeatLoop(old, Tail(new),
             IF ~Contains(old, Head(new)) /\ ~Contains(acc, Head(new))
             THEN Append(acc, Head(new))
             ELSE acc)

AddedNoRepeat(old, new) == AddedNoRepeatLoop(old, new, <<>>)

\* variant: nothing is reported while the Observed State is still empty
AddedSkipFirst(old, new) ==
    IF old = <<>> THEN <<>> ELSE AddedLoop(old, new, <<>>)

\* variant: a positional diff, row i of new against row i of old
RECURSIVE AddedPositionalLoop(_, _, _, _)
AddedPositionalLoop(old, new, i, acc) ==
    IF i > Len(new) THEN acc
    ELSE AddedPositionalLoop(old, new, i + 1,
             IF i <= Len(old) /\ EntryEq(old[i], new[i]) THEN acc
             ELSE Append(acc, new[i]))

AddedPositional(old, new) == AddedPositionalLoop(old, new, 1, <<>>)

Added(old, new) == AddedLoop(old, new, <<>>)

\* the lines _notify appends to msg, one per new entry
RECURSIVE MessageLines(_)
MessageLines(list) ==
    IF list = <<>> THEN ""
    ELSE "  - " \o EntryStr(Head(list)) \o "\n" \o MessageLines(Tail(list))

\* msg as _notify builds it
Message(list) ==
    "Update in your delivery!\n\n" \o MessageLines(list) \o "\nURL: " \o url

\* the lines _print_entries leaves on the cleared terminal
Screen(list) ==
    <<"URL: " \o url, "">>
    \o [i \in 1..Len(list) |-> EntryStr(list[i])]
    \o <<"", "Last refresh at: <curdate>", "Next refresh at <next_update>">>

Min(a, b) == IF a < b THEN a ELSE b

\* variant: the render shows the diff
entriesAdded == added

\* the entries property: the getter returns self._entries
entries == _entries

\* variant: the state is replaced only when something was added
AssignedIfAdded(old, new) == IF Added(old, new) # <<>> THEN new ELSE old

\* variant: the new entries are merged into the state
AssignedMerge(old, new) == old \o Added(old, new)

\* the entries setter, line 80: the value self._entries takes
Assigned(old, new) == new

\* variant: the exception is swallowed and the loop goes on to its sleep
PropagateCaught(exc) ==
    /\ pc' = "sleep"
    /\ fault' = exc

\* an exception nothing catches: it leaves watch(), which has no handler
Propagate(exc) ==
    /\ pc' = "crashed"
    /\ fault' = exc

--------------------------------------------------------------------------
(* The state machine *)

\* Watcher.__init__, before watch() is entered
Init ==
    /\ recipient \in Recipients
    /\ _entries = <<>>
    /\ pc = "find"
    /\ new_entries = <<>>
    /\ added = <<>>
    /\ sent = <<>>
    /\ console = <<>>
    /\ fault = "none"
    /\ page = NoPage
    /\ prior = <<>>
    /\ last_read = <<>>
    /\ events = <<>>
    /\ first = TRUE
    /\ tracked \in Entries
    /\ notified = 0
    /\ presence = "unseen"

\* presence of the tracked entry after a read that returned `list`
PresenceAfter(list) ==
    IF Contains(list, tracked)
    THEN (IF presence = "unseen" THEN "present" ELSE presence)
    ELSE (IF presence = "present" THEN "gone" ELSE presence)

\* watch(), line 84, right-hand side: self._find_entries() on the page as it
\* is now; an exception leaves watch()
FindEntries ==
    /\ pc = "find"
    /\ \E p \in Pages :
          LET r == FindEntriesResult(p) IN
          /\ page' = p
          /\ IF r.exc = "none"
             THEN /\ new_entries' = r.entries
                  /\ pc' = "set"
                  /\ events' = Append(events, "read")
                  /\ presence' = PresenceAfter(r.entries)
                  /\ UNCHANGED fault
             ELSE /\ Propagate(r.exc)
                  /\ UNCHANGED <<new_entries, events, presence>>
    /\ UNCHANGED <<recipient, _entries, added, sent, console, prior,
                   last_read, first, tracked, notified>>

\* the send collaborator: it delivers or raises
SendOutcomes == BOOLEAN

\* watch(), line 84, the assignment: the entries setter, with the call of
\* _notify it makes
SetEntries ==
    /\ pc = "set"
    /\ LET a == Added(_entries, new_entries) IN
       /\ added' = a
       /\ IF a # <<>> /\ Truthy(recipient)
          THEN \E ok \in SendOutcomes :
                 /\ sent' = Append(sent, [phone_no |-> recipient[1],
                                          message |-> Message(a),
                                          wait_time |-> wait_time])
                 /\ events' = Append(events, "notify")
                 /\ notified' = IF Contains(a, tracked)
                                THEN Min(notified + 1, MaxCount)
                                ELSE notified
                 /\ IF ok
                    THEN /\ console' = console \o <<"Sending notification...",
                                                     "Notification sent...">>
                         /\ _entries' = Assigned(_entries, new_entries)
                         /\ pc' = "print"
                         /\ UNCHANGED fault
                    ELSE /\ console' = console \o <<"Sending notification...">>
                         /\ Propagate("SendError")
                         /\ UNCHANGED _entries
          ELSE /\ _entries' = Assigned(_entries, new_entries)
               /\ pc' = "print"
               /\ UNCHANGED <<sent, events, notified, console, fault>>
    /\ page' = NoPage
    /\ UNCHANGED <<recipient, new_entries, prior, last_read, first, tracked,
                   presence>>

\* watch(), line 85: _print_entries
PrintEntries ==
    /\ pc = "print"
    /\ console' = Screen(entries)
    /\ events' = Append(events, "render")
    /\ pc' = "sleep"
    /\ UNCHANGED <<recipient, _entries, new_entries, added, sent, fault, page,
                   prior, last_read, first, tracked, notified, presence>>

\* variant: the loop is left after its first sleep
SleepOnce ==
    /\ pc = "sleep"
    /\ pc' = "done"
    /\ UNCHANGED <<recipient, _entries, new_entries, added, sent, console,
                   fault, page, prior, last_read, events, first, tracked,
                   notified, presence>>

\* watch(), line 86: time.sleep(self.sleep), then the next iteration; the
\* record of the finished cycle is dropped
Sleep ==
    /\ pc = "sleep"
    /\ pc' = "find"
    /\ added' = <<>>
    /\ sent' = <<>>
    /\ events' = <<>>
    /\ prior' = _entries
    /\ last_read' = new_entries
    /\ first' = FALSE
    /\ UNCHANGED <<recipient, _entries, new_entries, console, fault, page,
                   tracked, notified, presence>>

Next == FindEntries \/ SetEntries \/ PrintEntries \/ Sleep

Spec == Init /\ [][Next]_vars

\* watch() is a sequential loop of a running process: a step that can be
\* taken is taken
LiveSpec == Spec /\ WF_vars(Next)

TypeOK ==
    /\ recipient \in Recipients
    /\ pc \in {"find", "set", "print", "sleep", "crashed"}
    /\ fault \in {"none", "TimeoutException", "IndexError", "SendError"}
    /\ _entries \in SeqsUpTo(Entries, MaxRows)
    /\ new_entries \in SeqsUpTo(Entries, MaxRows)
    /\ prior \in SeqsUpTo(Entries, MaxRows)
    /\ last_read \in SeqsUpTo(Entries, MaxRows)
    /\ page \in Pages
    /\ Len(sent) <= 1
    /\ notified \in 0..MaxCount
    /\ presence \in {"unseen", "present", "gone"}
    /\ first \in BOOLEAN

--------------------------------------------------------------------------
(* Vocabulary of the properties, stated without the operators above *)

Range(s) == { s[i] : i \in 1..Len(s) }

\* the entries of cur that equal no entry of old, in cur's order
NotIn(old, cur) == SelectSeq(cur, LAMBDA e : e \notin Range(old))

\* the setter has run in the current cycle (the diff was computed)
DiffRan == pc \in {"print", "sleep"} \/ fault = "SendError"

\* a recipient is configured: neither None nor the empty string
Configured == recipient \notin { <<>>, <<"">> }

\* the current cycle's read failed
ReadFailed == fault \in {"TimeoutException", "IndexError"}

\* number of occurrences of x in s
Count(s, x) == Cardinality({ i \in 1..Len(s) : s[i] = x })

--------------------------------------------------------------------------
(* C1: once the setter has computed the diff, `added` is exactly the
   sub-sequence of the read whose entries equal no entry of the prior
   Observed State, in the read's order, an entry occurring twice in the read
   and absent from the prior state appearing twice; and a message handed to
   the send collaborator lists exactly those entries, in that order. *)
C1_DiffCorrect ==
    DiffRan =>
        /\ added = NotIn(prior, new_entries)
        /\ \A i \in 1..Len(sent) :
              sent[i].message = Message(NotIn(prior, new_entries))

\* a later cycle reads one new entry twice: it is reported and sent twice
C1_Witness ==
    /\ pc = "print"
    /\ prior # <<>>
    /\ Len(added) = 2
    /\ added[1] = added[2]
    /\ sent # <<>>

(* C2: in every cycle a message is handed to the send collaborator if and
   only if `added` is non-empty and a recipient is configured; at most one
   per cycle; none before the diff has run; and an unset or empty recipient
   is no error: a send fault occurs only with a configured recipient. *)
C2_NotifierGating ==
    /\ Len(sent) <= 1
    /\ sent # <<>> => DiffRan
    /\ DiffRan => ((sent # <<>>) <=> (added # <<>> /\ Configured))
    /\ fault = "SendError" => Configured
    /\ \A i \in 1..Len(sent) : sent[i].phone_no = recipient[1]

\* entries were added, the recipient is the empty string: no send, and the
\* cycle went on to its render
C2_Witness ==
    /\ pc = "sleep"
    /\ added # <<>>
    /\ recipient = <<"">>
    /\ sent = <<>>

(* C3: after any completed poll cycle the Observed State is exactly the
   sequence the Page Reader just returned, whatever `added` was and also
   when the read is shorter than or a reordering of the previous state; the
   Observed State is empty until the first cycle's setter has run. *)
C3_StateReplaced ==
    /\ pc \in {"print", "sleep"} => _entries = new_entries
    /\ (pc = "find" /\ ~first) => _entries = new_entries
    /\ (first /\ ~DiffRan) => _entries = <<>>

\* a cycle whose read is strictly shorter than the state it replaces
C3_Witness ==
    /\ pc = "sleep"
    /\ Len(new_entries) < Len(prior)
    /\ new_entries # <<>>
    /\ added = <<>>
    /\ _entries = new_entries

(* C4: on the first cycle of a run `added` is the whole read; with a
   configured recipient and a non-empty first read exactly one message is
   handed over, addressed to the recipient and listing every entry read, in
   read order. *)
C4_FirstCycle ==
    (first /\ DiffRan) =>
        /\ prior = <<>>
        /\ added = new_entries
        /\ (Configured /\ new_entries # <<>>) =>
              /\ Len(sent) = 1
              /\ sent[1].phone_no = recipient[1]
              /\ sent[1].message = Message(new_entries)

\* the first cycle read two entries and notified them
C4_Witness ==
    /\ first
    /\ pc = "print"
    /\ Len(new_entries) = 2
    /\ new_entries[1] # new_entries[2]
    /\ Len(sent) = 1

(* C5: a fault of the Page Reader or of the send collaborator ends the
   loop: the program is at its crashed position and no step is possible any
   more (no read, notification, render or sleep); and a failed read leaves
   no partial result: in its cycle nothing was sent, nothing was rendered,
   and the Observed State and the screen are as the cycle found them. *)
C5_FaultsPropagate ==
    /\ fault # "none" => (pc = "crashed" /\ ~ENABLED Next)
    /\ ReadFailed =>
          /\ sent = <<>>
          /\ events = <<>>
          /\ added = <<>>
          /\ _entries = prior
          /\ console = (IF first THEN <<>> ELSE Screen(prior))

\* a read that times out in a later cycle, with a non-empty Observed State
C5_Witness ==
    /\ fault = "TimeoutException"
    /\ ~first
    /\ _entries # <<>>

(* C6: in a cycle whose read (and send, if any) succeeded the render happens
   exactly once, as the last step before the sleep, after the notification
   and after the Observed State was replaced, and the screen shows the full
   sequence just read, not the diff; before that point of the cycle nothing
   of it is rendered; a successful setter is always followed by the render. *)
C6_RenderEveryCycle ==
    /\ Count(events, "render") = (IF pc = "sleep" THEN 1 ELSE 0)
    /\ pc = "sleep" =>
          /\ events \in { <<"read", "render">>, <<"read", "notify", "render">> }
          /\ _entries = new_entries
          /\ console = Screen(new_entries)
    /\ pc = "print" => ENABLED PrintEntries

\* a rendered cycle in which only a part of the read was new and notified
C6_Witness ==
    /\ pc = "sleep"
    /\ added # <<>>
    /\ added # new_entries
    /\ sent # <<>>
    /\ console = Screen(new_entries)

(* C7: when every entry of a successful read already occurs in the prior
   Observed State (the same sequence, a reordering, a subset), `added` is
   empty and no message is sent in that cycle, so there is no send fault
   either. *)
C7_NoChangeNoNotify ==
    (DiffRan /\ Range(new_entries) \subseteq Range(prior)) =>
        /\ added = <<>>
        /\ sent = <<>>
        /\ fault = "none"

\* a reordering of a two-entry state, with a recipient configured
C7_Witness ==
    /\ pc = "print"
    /\ Configured
    /\ Len(prior) = 2
    /\ prior[1] # prior[2]
    /\ new_entries = <<prior[2], prior[1]>>
    /\ added = <<>>

\* the steps a cycle has completed, by the position of watch()
CycleOrder ==
    /\ pc = "find" => events = <<>>
    /\ pc = "set" => events = <<"read">>
    /\ pc = "print" => events \in { <<"read">>, <<"read", "notify">> }
    /\ pc = "sleep" =>
          events \in { <<"read", "render">>, <<"read", "notify", "render">> }

(* C8: the loop has no exit of its own: it is at its terminated position
   only after a fault; each cycle runs read, conditional notification,
   render, sleep in that order; and unless a collaborator faults, a read is
   completed again and again and a render is completed again and again. *)
C8_LoopForever ==
    /\ [](pc = "crashed" => fault # "none")
    /\ []CycleOrder
    /\ []<>(fault # "none" \/ pc = "set")
    /\ []<>(fault # "none" \/ pc = "sleep")
    /\ [](pc = "sleep" => <>(fault # "none" \/ pc = "set"))

\* a second cycle has been rendered and is about to sleep
C8_Witness ==
    /\ ~first
    /\ pc = "sleep"
    /\ fault = "none"

(* C9: the diff depends only on the cycle's read and the read before it:
   `added` is the entries of the read that the preceding read lacked, so the
   tracked entry is in `added` exactly when it is in the read and was not in
   the preceding one, however often it was notified before, and with a
   recipient configured it is then sent again; an entry that has been in
   every read since it first appeared was notified at most once, and an
   entry never read was never notified. *)
C9_OnlyLastRead ==
    /\ DiffRan =>
          /\ added = NotIn(last_read, new_entries)
          /\ tracked \in Range(added)
                <=> (tracked \in Range(new_entries)
                        /\ tracked \notin Range(last_read))
    /\ (DiffRan /\ Configured /\ tracked \in Range(new_entries)
            /\ tracked \notin Range(last_read)) => sent # <<>>
    /\ presence = "unseen" => notified = 0
    /\ presence = "present" => notified <= 1

\* the tracked entry has been notified a second time
C9_Witness ==
    /\ notified >= 2
    /\ presence = "gone"
    /\ tracked \in Range(added)

(* C10: a read succeeds only when the log container is present and holds at
   least one row; with the container absent, or present without any row, the
   read fails with the lookup timeout; and the read returns the empty
   sequence only when every row present (at least one) has no cells. *)
C10_RowWait ==
    /\ pc = "set" => (page.logs /\ page.rows # <<>>)
    /\ (pc = "set" /\ new_entries = <<>>) =>
          \A i \in 1..Len(page.rows) : page.rows[i] = <<>>
    /\ (ReadFailed /\ (~page.logs \/ page.rows = <<>>)) =>
          fault = "TimeoutException"
    /\ fault = "TimeoutException" => (~page.logs \/ page.rows = <<>>)

\* the container is there, it holds no row, and the read timed out
C10_Witness ==
    /\ fault = "TimeoutException"
    /\ page.logs
    /\ page.rows = <<>>

====
